---- MODULE Spec2Model ----
(***************************************************************************)
(* Model of the hy command-line client (github.com/hypewell-ai/hy): the    *)
(* credential resolver, the cobra dispatch of one invocation, the command  *)
(* handlers that turn an invocation into HTTP requests, and the auth       *)
(* commands with the browser login's callback server.                      *)
(*                                                                         *)
(* One invocation at a time runs from Execute to Exit.  A handler blocks   *)
(* in two places only, on a line of standard input and on an HTTP round    *)
(* trip; the model has one action for each stretch of handler code between *)
(* two such points.  The remote API and standard input are the environment:*)
(* every response and every input line is chosen nondeterministically.     *)
(***************************************************************************)
EXTENDS Integers, Sequences, FiniteSets, TLC

(***************************************************************************)
(* Bounds of the model.                                                    *)
(***************************************************************************)
\* longest line of standard input that is enumerated
MaxLineLen == 3
\* most entities in the collection of a list response
MaxItems == 2
\* most lines an interactive chat session reads before standard input ends
MaxChatReads == 3
\* most requests the browser sends to the local login server in one run
MaxCallbacks == 3

(***************************************************************************)
(* HTTP status codes the handlers compare against (net/http constants).    *)
(***************************************************************************)
StatusOK == 200
StatusCreated == 201
StatusAccepted == 202
StatusConflict == 409
\* http.DefaultClient.Do returned err != nil: there is no response at all
NoResponse == 0

\* the statuses the environment may answer with
Statuses == {200, 201, 202, 204, 400, 404, 409, 500}

\* what the JSON body of a response holds in the field the handler reads
\*   garbage   : not decodable as JSON
\*   absent    : a JSON object without the field
\*   null      : the field is JSON null
\*   empty     : the field is {} / [] / ""
\*   populated : the field carries data
Bodies == {"garbage", "absent", "null", "empty", "populated"}

\* the entities a collection may carry, by their id
Entities == {"a", "b"}

\* the non-empty collections of a list response, in the order the API sent them
Collections == UNION {[1..n -> Entities] : n \in 1..MaxItems}

\* one outcome of http.DefaultClient.Do: the status, the body, and when the
\* body is the populated collection of a list response its items and hasMore
Reply(s, b, it, m) == [status |-> s, body |-> b, items |-> it, hasMore |-> m]

Outcomes == {Reply(s, b, <<>>, FALSE) : s \in Statuses \cup {NoResponse}, b \in Bodies}

\* the outcomes of the GET of a list command: a 200 whose collection is
\* populated carries its items
ListOutcomes ==
    {o \in Outcomes : ~(o.status = StatusOK /\ o.body = "populated")}
    \cup {Reply(StatusOK, "populated", it, m) : it \in Collections, m \in BOOLEAN}

(***************************************************************************)
(* Standard input: a line is a sequence of characters without its newline. *)
(***************************************************************************)
Alphabet == {"y", "Y", "e", "s", "n", " "}

Lines == UNION {[1..n -> Alphabet] : n \in 0..MaxLineLen}

\* what one read of standard input finds: end of file, or a line
StdinInputs == {[eof |-> TRUE, line |-> <<>>]} \cup {[eof |-> FALSE, line |-> l] : l \in Lines}

\* the ASCII letters, upper case and lower case in the same order
UpperCase == <<"A", "B", "C", "D", "E", "F", "G", "H", "I", "J", "K", "L", "M",
               "N", "O", "P", "Q", "R", "S", "T", "U", "V", "W", "X", "Y", "Z">>
LowerCase == <<"a", "b", "c", "d", "e", "f", "g", "h", "i", "j", "k", "l", "m",
               "n", "o", "p", "q", "r", "s", "t", "u", "v", "w", "x", "y", "z">>

\* unicode.ToLower on one ASCII character
ToLowerChar(c) == IF \E i \in 1..Len(UpperCase) : UpperCase[i] = c
                  THEN LowerCase[CHOOSE i \in 1..Len(UpperCase) : UpperCase[i] = c]
                  ELSE c

\* strings.ToLower
ToLower(s) == [i \in 1..Len(s) |-> ToLowerChar(s[i])]

RECURSIVE SkipSpace(_)
\* fmt: (*ss).SkipSpace, the blanks before an operand
SkipSpace(s) == IF s = <<>> THEN <<>>
                ELSE IF Head(s) = " " THEN SkipSpace(Tail(s)) ELSE s

RECURSIVE Token(_)
\* fmt: (*ss).token for a %v string operand, the run of non-blank characters
Token(s) == IF s = <<>> \/ Head(s) = " " THEN <<>>
            ELSE <<Head(s)>> \o Token(Tail(s))

\* fmt.Scanln(&confirm) with the error dropped: confirm is the first
\* blank-delimited token of the line; whatever follows it on the line makes
\* Scanln return "expected newline", which the handler ignores, and on end of
\* file or an empty line confirm keeps its zero value
Scanln(in) == IF in.eof THEN <<>> ELSE Token(SkipSpace(in.line))

\* the negation of the handlers' cancel condition
\*   strings.ToLower(confirm) != "y" && strings.ToLower(confirm) != "yes"
Affirmative(confirm) == ToLower(confirm) \in {<<"y">>, <<"y", "e", "s">>}

\* the lines typed into an interactive chat session
ChatLines == {<<>>, <<" ">>,
              <<"e", "x", "i", "t">>, <<" ", "q", "u", "i", "t", " ">>,
              <<"E", "x", "i", "t">>, <<"h", "i">>}

RECURSIVE TrimTrailing(_)
\* strings.TrimSpace, the blanks at the end
TrimTrailing(s) == IF s = <<>> THEN <<>>
                   ELSE IF s[Len(s)] = " " THEN TrimTrailing(SubSeq(s, 1, Len(s) - 1)) ELSE s

\* strings.TrimSpace(scanner.Text())
StringsTrimSpace(s) == TrimTrailing(SkipSpace(s))

\* mutant: the exit tokens are recognised whatever their case
EndsChatAnyCase(message) ==
    ToLower(message) \in {<<"e", "x", "i", "t">>, <<"q", "u", "i", "t">>}

\* message == "exit" || message == "quit"
EndsChat(message) == message \in {<<"e", "x", "i", "t">>, <<"q", "u", "i", "t">>}

(***************************************************************************)
(* Commands and their flags.                                               *)
(***************************************************************************)
ProductionsCmds == {"productions list", "productions get", "productions create",
                    "productions build", "productions delete", "productions status"}
AssetsCmds == {"assets list", "assets upload", "assets get", "assets delete"}
KeysCmds == {"keys list", "keys create", "keys revoke"}
ThreadCmds == {"thread chat", "thread history"}

\* the commands that call the API
Commands == ProductionsCmds \cup AssetsCmds \cup KeysCmds \cup ThreadCmds

\* the commands that manage the stored credential
AuthCmds == {"auth login", "auth logout", "auth status"}

AllCommands == Commands \cup AuthCmds

\* the boolean flags an invocation may carry
FlagNames == {"force", "validate-only", "dry-run"}

\* the boolean flags each command registers in its file's init()
DefinedFlags(c) ==
    CASE c = "productions create" -> {"dry-run"}
      [] c = "productions build"  -> {"validate-only"}
      [] c = "productions delete" -> {"force"}
      [] c = "assets delete"      -> {"force"}
      [] OTHER                    -> {}

\* what --spec names: no file given, a file holding a JSON object, a file
\* os.ReadFile fails on, a file json.Unmarshal fails on
SpecFiles == {"", "spec.json", "unreadable.json", "invalid.json"}

\* the string flags and the file argument of an invocation
NoArgs == [name |-> "", topic |-> "", category |-> "", spec |-> "", fileOK |-> TRUE,
           message |-> ""]

ArgsFor(c) ==
    CASE c = "productions create" -> [name : {"", "X"}, topic : {"", "Y"}, category : {"", "tech"},
                                      spec : SpecFiles, fileOK : {TRUE}, message : {""}]
      [] c = "keys create"        -> [name : {"", "X"}, topic : {""}, category : {""},
                                      spec : {""}, fileOK : {TRUE}, message : {""}]
      [] c = "assets upload"      -> [name : {""}, topic : {""}, category : {""},
                                      spec : {""}, fileOK : BOOLEAN, message : {""}]
      [] c = "thread chat"        -> [name : {""}, topic : {""}, category : {""},
                                      spec : {""}, fileOK : {TRUE}, message : {"", "hi"}]
      [] OTHER                    -> {NoArgs}

(***************************************************************************)
(* State.                                                                  *)
(***************************************************************************)
VARIABLES
    envKey,       \* os.Getenv("HY_API_KEY")
    keyring,      \* what keyring.Get(serviceName, keyringUser) returns
    viper,        \* the config store: api_key and workspace_id
    pc,           \* where the invocation stands
    cmd,          \* the command being run
    flags,        \* its boolean flags
    args,         \* its string flags and file argument
    runE,         \* TRUE once cobra has entered the command's RunE
    apiKey,       \* the handler's local apiKey
    workspaceID,  \* the handler's local workspaceID
    stdinReads,   \* number of reads of standard input in this invocation
    stdinLast,    \* what the last read of standard input found
    requests,     \* the HTTP requests issued in this invocation, in order
    responses,    \* the outcomes received for them, in order
    out,          \* what the invocation printed, in order
    err,          \* the error RunE / Execute returned
    scanned,      \* the lines scanner.Scan() handed to the chat loop, in order
    sent,         \* the messages passed to sendChatMessage, in order
    call,         \* a call of one of the helper functions: name, argument, result
    exitCode,     \* the process exit code, -1 while running
    keyShown,     \* the redacted key auth status printed, as characters
    login         \* the browser login: server, result channel, timer

persistent == <<envKey, keyring, viper>>
invocation == <<cmd, flags, args>>
creds == <<apiKey, workspaceID>>
stdin == <<stdinReads, stdinLast>>
auth == <<keyShown, login>>
chat == <<scanned, sent>>
vars == <<envKey, keyring, viper, pc, cmd, flags, args, runE, apiKey,
          workspaceID, stdinReads, stdinLast, requests, responses, out, err, exitCode,
          keyShown, login, scanned, sent, call>>

NoError == [kind |-> "none", status |-> 0]
Error(k) == [kind |-> k, status |-> 0]
APIError(s) == [kind |-> "API error", status |-> s]

EOFInput == [eof |-> TRUE, line |-> <<>>]

\* no helper function is being called
NoCall == [fn |-> "none", arg |-> "", ret |-> "", done |-> FALSE]

\* the browser login before runAuthLogin has run
\*   server   : off, starting (goroutine started), serving, failed, closed
\*   resultCh : the buffer of resultCh, make(chan authResult, 1)
\*   sendq    : the handler goroutines blocked in  resultCh <- ...  , in order
\*   arrived  : the requests the local server has accepted
\*   expired  : ctx.Done() is closed, the 5 minutes are over
\*   received : how many results the select has taken from resultCh
\*   timedOut : the select has taken the ctx.Done() case
\*   result   : the result the select received, the zero authResult before
NoLogin == [server |-> "off", resultCh |-> <<>>, sendq |-> <<>>, arrived |-> 0,
            expired |-> FALSE, received |-> 0, timedOut |-> FALSE,
            result |-> [err |-> "", apiKey |-> "", workspaceID |-> ""]]

(***************************************************************************)
(* Credential resolver.                                                    *)
(***************************************************************************)
\* GetAPIKey: environment, then keyring (taken whenever Get returns no
\* error), then the config file
GetAPIKey(env, ring, cfg) ==
    IF env # "" THEN env
    ELSE IF ~ring.err THEN ring.secret
    ELSE cfg

\* GetWorkspaceID: viper.GetString("workspace_id")
GetWorkspaceID == viper.workspace_id

KeyringStates == {[err |-> TRUE, secret |-> ""],
                  [err |-> FALSE, secret |-> ""],
                  [err |-> FALSE, secret |-> "sk_live_ring"]}

\* a process that has not started on its command line
Constructed ==
    /\ pc = "idle"
    /\ cmd = "productions list"
    /\ flags = {}
    /\ args = NoArgs
    /\ runE = FALSE
    /\ apiKey = ""
    /\ workspaceID = ""
    /\ stdinReads = 0
    /\ stdinLast = EOFInput
    /\ requests = <<>>
    /\ responses = <<>>
    /\ out = <<>>
    /\ err = NoError
    /\ exitCode = -1
    /\ keyShown = <<>>
    /\ login = NoLogin
    /\ scanned = <<>>
    /\ sent = <<>>

Init ==
    /\ envKey \in {"", "sk_test"}
    /\ keyring \in KeyringStates
    /\ viper \in [api_key : {"", "sk_live_cfg"}, workspace_id : {"", "ws_test123"}]
    /\ Constructed
    /\ call = NoCall

(***************************************************************************)
(* cobra dispatch: rootCmd.Execute() parses the flags of the selected      *)
(* command and fails on one the command did not register; otherwise it     *)
(* calls the command's RunE.                                               *)
(***************************************************************************)
Execute ==
    /\ pc = "idle"
    /\ \E c \in AllCommands, fl \in SUBSET FlagNames :
         \E a \in ArgsFor(c) :
           /\ cmd' = c
           /\ flags' = fl
           /\ args' = a
           /\ IF fl \subseteq DefinedFlags(c)
              THEN pc' = "runE" /\ err' = NoError
              ELSE pc' = "done" /\ err' = Error("unknown flag")
    /\ UNCHANGED <<call, persistent, runE, apiKey, workspaceID, stdinReads, stdinLast, chat,
                   requests, responses, out, exitCode, auth, chat>>

(***************************************************************************)
(* The head every handler shares: resolve the API key, fail when it is     *)
(* empty, resolve the workspace id and, in the handlers that check it,     *)
(* fail when it is empty.                                                  *)
(***************************************************************************)
\* mutant: the handler goes on with an empty key
NotAuthenticatedNever(key) == FALSE

\* if apiKey == "" { return fmt.Errorf("not authenticated. ...") }
NotAuthenticated(key) == key = ""

\* the handlers that have  if workspaceID == "" { return fmt.Errorf("no workspace configured. ...") }
ChecksWorkspace(c) ==
    c \in {"productions list", "productions create", "assets list", "assets upload",
           "thread chat", "thread history"}

\* the error the head of handler c returns, "none" when it passes
HeadError(c, key, ws) ==
    IF NotAuthenticated(key) THEN "not authenticated"
    ELSE IF ChecksWorkspace(c) /\ ws = "" THEN "no workspace configured"
    ELSE "none"

\* the assignments the head makes to the handler's locals
HandlerHead(c) ==
    /\ pc = "runE"
    /\ cmd = c
    /\ runE' = TRUE
    /\ apiKey' = GetAPIKey(envKey, keyring, viper.api_key)
    /\ workspaceID' = IF NotAuthenticated(GetAPIKey(envKey, keyring, viper.api_key))
                      THEN "" ELSE GetWorkspaceID

ThisHeadError(c) == HeadError(c, GetAPIKey(envKey, keyring, viper.api_key), GetWorkspaceID)

\* return err
Return(e) == pc' = "done" /\ err' = e

\* mutant: the request is attempted a second time
DoTwice(method, target, next) ==
    /\ requests' = requests \o << [method |-> method, target |-> target],
                                  [method |-> method, target |-> target] >>
    /\ pc' = next

\* http.NewRequest(method, url, ...) followed by http.DefaultClient.Do(req)
Do(method, target, next) ==
    /\ requests' = Append(requests, [method |-> method, target |-> target])
    /\ pc' = next

\* fmt.Println / fmt.Printf of one message
Output(m) == out' = Append(out, m)

(***************************************************************************)
(* Commands that issue one GET and render its result.                      *)
(***************************************************************************)
GetCmds == {"productions list", "productions get", "productions status",
            "assets list", "assets get", "keys list", "thread history"}

GetStart(c) ==
    /\ HandlerHead(c)
    /\ IF ThisHeadError(c) # "none"
       THEN Return(Error(ThisHeadError(c))) /\ UNCHANGED requests
       ELSE Do("GET", c, "await") /\ err' = NoError
    /\ UNCHANGED <<call, persistent, invocation, stdin, responses, out, exitCode, auth, chat>>

productionsListCmd == GetStart("productions list")
productionsGetCmd == GetStart("productions get")
productionsStatusCmd == GetStart("productions status")
assetsListCmd == GetStart("assets list")
assetsGetCmd == GetStart("assets get")
keysListCmd == GetStart("keys list")
threadHistoryCmd == GetStart("thread history")

(***************************************************************************)
(* productions create, keys create, thread chat: one POST.                 *)
(***************************************************************************)
\* the error of loading the file --spec names, "none" when there is none
SpecFileError(f) ==
    CASE f = "unreadable.json" -> "failed to read spec file"
      [] f = "invalid.json"    -> "invalid spec JSON"
      [] OTHER                 -> "none"

\* mutant: the flag is not looked at
DryRunIgnored(fl) == FALSE

\* dryRun, _ := cmd.Flags().GetBool("dry-run")
DryRun(fl) == "dry-run" \in fl

\* the lines the dry run prints: the name and the topic, then the category
\* and the spec file when they were given
DryRunLines(a) ==
    <<"[dry-run] Would create production:", a.name, a.topic>>
    \o (IF a.category # "" THEN <<a.category>> ELSE <<>>)
    \o (IF a.spec # "" THEN <<a.spec>> ELSE <<>>)

productionsCreateCmd ==
    /\ HandlerHead("productions create")
    /\ UNCHANGED <<call, persistent, invocation, stdin, responses, exitCode, auth, chat>>
    /\ IF ThisHeadError("productions create") # "none"
       THEN Return(Error(ThisHeadError("productions create"))) /\ UNCHANGED <<requests, out>>
       ELSE IF args.name = "" \/ args.topic = ""
       THEN Return(Error("--name and --topic are required")) /\ UNCHANGED <<requests, out>>
       ELSE IF SpecFileError(args.spec) # "none"
       THEN Return(Error(SpecFileError(args.spec))) /\ UNCHANGED <<requests, out>>
       ELSE IF DryRun(flags)
       THEN /\ out' = out \o DryRunLines(args)
            /\ Return(NoError)
            /\ UNCHANGED requests
       ELSE Do("POST", "productions create", "await") /\ err' = NoError /\ UNCHANGED out

keysCreateCmd ==
    /\ HandlerHead("keys create")
    /\ UNCHANGED <<call, persistent, invocation, stdin, responses, out, exitCode, auth, chat>>
    /\ IF ThisHeadError("keys create") # "none"
       THEN Return(Error(ThisHeadError("keys create"))) /\ UNCHANGED requests
       ELSE IF args.name = ""
       THEN Return(Error("--name is required")) /\ UNCHANGED requests
       ELSE Do("POST", "keys create", "await") /\ err' = NoError

\* thread chat: with no message argument the interactive session starts,
\* with one sendChatMessage(url, apiKey, message) is called once
threadChatCmd ==
    /\ HandlerHead("thread chat")
    /\ UNCHANGED <<call, persistent, invocation, stdin, responses, exitCode, auth, scanned>>
    /\ sent' = IF ThisHeadError("thread chat") = "none" /\ args.message # ""
               THEN <<args.message>> ELSE sent
    /\ IF ThisHeadError("thread chat") # "none"
       THEN Return(Error(ThisHeadError("thread chat"))) /\ UNCHANGED <<requests, out>>
       ELSE IF args.message = ""
       THEN /\ out' = out \o <<"Chatting with workspace assistant",
                                "Type 'exit' or 'quit' to end the conversation.", "">>
            /\ pc' = "chatRead"
            /\ err' = NoError
            /\ UNCHANGED requests
       ELSE Do("POST", "thread chat", "await") /\ err' = NoError /\ Output("Thinking...")

\* what scanner.Scan() finds: standard input ends after MaxChatReads lines
ChatInputs == IF stdinReads >= MaxChatReads THEN {EOFInput}
              ELSE {EOFInput} \cup {[eof |-> FALSE, line |-> l] : l \in ChatLines}

\* interactiveChat, one turn of the loop up to the request
interactiveChat ==
    /\ pc = "chatRead"
    /\ \E in \in ChatInputs :
         /\ stdinReads' = stdinReads + 1
         /\ stdinLast' = in
         /\ scanned' = IF in.eof THEN scanned ELSE Append(scanned, in.line)
         /\ IF in.eof
            THEN Output("You: ") /\ Return(NoError) /\ UNCHANGED <<requests, sent>>
            ELSE IF StringsTrimSpace(in.line) = <<>>
            THEN Output("You: ") /\ UNCHANGED <<pc, err, requests, sent>>
            ELSE IF EndsChat(StringsTrimSpace(in.line))
            THEN /\ out' = out \o <<"You: ", "Goodbye!">>
                 /\ Return(NoError)
                 /\ UNCHANGED <<requests, sent>>
            ELSE /\ out' = out \o <<"You: ", "Thinking...">>
                 /\ sent' = Append(sent, StringsTrimSpace(in.line))
                 /\ Do("POST", "thread chat", "chatAwait")
                 /\ UNCHANGED err
    /\ UNCHANGED <<call, persistent, invocation, runE, creds, responses, exitCode, auth>>

\* the outcomes of the chat POST: the body carries the assistant's message or
\* does not
ChatOutcomes == {o \in Outcomes : o.body \in {"garbage", "populated"}}

\* fmt.Printf("Error: %v\n", err)
ErrorLine(e) == IF e.kind = "request failed" THEN "Error: request failed"
                ELSE "Error: API error"

(***************************************************************************)
(* keys revoke: one DELETE, issued right after the head of the handler.    *)
(***************************************************************************)
keysRevokeCmd ==
    /\ HandlerHead("keys revoke")
    /\ UNCHANGED <<call, persistent, invocation, stdin, responses, out, exitCode, auth, chat>>
    /\ IF ThisHeadError("keys revoke") # "none"
       THEN Return(Error(ThisHeadError("keys revoke"))) /\ UNCHANGED requests
       ELSE Do("DELETE", "keys revoke", "await") /\ err' = NoError

(***************************************************************************)
(* The response of a one-request command.                                  *)
(***************************************************************************)
\* the status each handler takes for success
SuccessStatus(c) ==
    IF c \in {"productions create", "keys create"} THEN StatusCreated ELSE StatusOK

\* the handlers that return "failed to parse response" when Decode fails;
\* the others drop Decode's error and go on with the zero value
DecodeChecked(c) == c \in {"productions list", "assets list", "keys list", "keys create"}

\* mutant: the empty collection is rendered as a table
EmptyCollectionNever(items) == FALSE

\* the collection of a list response is empty: len(result.X) == 0, which a
\* missing, null or empty array and a body Decode gave up on all produce
EmptyCollection(items) == Len(items) = 0

ListCmds == {"productions list", "assets list", "keys list", "thread history"}

EmptyLine(c) ==
    CASE c = "productions list" -> "No productions found"
      [] c = "assets list"      -> "No assets found"
      [] c = "keys list"        -> "No API keys found"
      [] c = "thread history"   -> "No messages in thread"

\* fmt.Fprintln(w, "ID\tNAME\t..."): the header row of the table; thread
\* history prints its messages without one
Header(c) ==
    CASE c = "productions list" -> <<"ID NAME STATUS TOPIC">>
      [] c = "assets list"      -> <<"ID NAME TYPE SIZE">>
      [] c = "keys list"        -> <<"ID NAME PREFIX LAST USED">>
      [] c = "thread history"   -> <<>>

\* if result.HasMore { fmt.Printf("\n(more results available ...)\n") }
Footer(c, o) ==
    IF c \in {"productions list", "assets list"} /\ o.hasMore
    THEN <<"(more results available)">> ELSE <<>>

\* for _, p := range result.X { fmt.Fprintf(w, ...) }: one row per entity
Rows(items) == items

\* what the handler prints on success
Render(c, o) ==
    IF c \in ListCmds
    THEN IF EmptyCollection(o.items) THEN <<EmptyLine(c)>>
         ELSE Header(c) \o Rows(o.items) \o Footer(c, o)
    ELSE CASE c = "productions create" -> <<"Created production">>
           [] c = "keys create"        -> <<"API key created">>
           [] c = "keys revoke"        -> <<"API key revoked">>
           [] c = "thread chat"        -> <<"reply">>
           [] OTHER                    -> <<"details">>

\* the error a handler returns for a response that is not its success status
ResponseError(o) ==
    IF o.status = NoResponse THEN Error("request failed") ELSE APIError(o.status)

\* the outcomes the request of command c may have
OutcomesOf(c) ==
    IF c \in ListCmds THEN ListOutcomes
    ELSE IF c = "thread chat" THEN ChatOutcomes
    ELSE Outcomes

handleResponse ==
    /\ pc = "await"
    /\ \E o \in OutcomesOf(cmd) :
         /\ responses' = Append(responses, o)
         /\ IF o.status # SuccessStatus(cmd)
            THEN Return(ResponseError(o)) /\ UNCHANGED out
            ELSE IF DecodeChecked(cmd) /\ o.body = "garbage"
            THEN Return(Error("failed to parse response")) /\ UNCHANGED out
            ELSE Return(NoError) /\ out' = out \o Render(cmd, o)
    /\ UNCHANGED <<call, persistent, invocation, runE, creds, stdin, requests, exitCode, auth, chat>>

\* interactiveChat, the rest of the turn: sendChatMessage's result is printed,
\* an error as a line of output, and the loop reads the next line
\* the answers to one turn of the loop: sendChatMessage tells a failed
\* request, a status other than 200 and a 200 apart, reads the body of a 200
\* only, and the loop only prints what it returns
TurnOutcomes == {o \in ChatOutcomes :
                    \/ o.status = StatusOK
                    \/ o.status \in {NoResponse, 500} /\ o.body = "garbage"}

interactiveChat_response ==
    /\ pc = "chatAwait"
    /\ \E o \in TurnOutcomes :
         /\ responses' = Append(responses, o)
         /\ IF o.status # StatusOK
            THEN out' = out \o <<ErrorLine(ResponseError(o)), "">>
            ELSE out' = out \o Render("thread chat", o) \o <<"">>
    /\ pc' = "chatRead"
    /\ UNCHANGED <<call, persistent, invocation, runE, creds, stdin, requests, err, exitCode, auth, chat>>

(***************************************************************************)
(* productions delete and assets delete: confirmation, then one DELETE.    *)
(***************************************************************************)
\* mutant: the flag is not looked at and the prompt is always shown
SkipsConfirmationNever(fl) == FALSE

\* force, _ := cmd.Flags().GetBool("force");  if !force { ...prompt... }
SkipsConfirmation(fl) == "force" \in fl

DeleteStart(c) ==
    /\ HandlerHead(c)
    /\ UNCHANGED <<call, persistent, invocation, stdin, responses, exitCode, auth, chat>>
    /\ IF ThisHeadError(c) # "none"
       THEN Return(Error(ThisHeadError(c))) /\ UNCHANGED <<requests, out>>
       ELSE IF SkipsConfirmation(flags)
       THEN Do("DELETE", c, "awaitDelete") /\ err' = NoError /\ UNCHANGED out
       ELSE Output("[y/N]") /\ pc' = "confirm" /\ err' = NoError /\ UNCHANGED requests

productionsDeleteCmd == DeleteStart("productions delete")
assetsDeleteCmd == DeleteStart("assets delete")

\* mutant: a declined confirmation falls through to the request
CancelsNever(confirm) == FALSE

\* if strings.ToLower(confirm) != "y" && strings.ToLower(confirm) != "yes" { Cancelled; return nil }
Cancels(confirm) == ~Affirmative(confirm)

\* fmt.Scanln(&confirm) and the branch on what it read
readConfirmation ==
    /\ pc = "confirm"
    /\ \E in \in StdinInputs :
         /\ stdinReads' = stdinReads + 1
         /\ stdinLast' = in
         /\ IF Cancels(Scanln(in))
            THEN Output("Cancelled") /\ Return(NoError) /\ UNCHANGED requests
            ELSE Do("DELETE", cmd, "awaitDelete") /\ UNCHANGED <<out, err>>
    /\ UNCHANGED <<call, persistent, invocation, runE, creds, responses, exitCode, auth, chat>>

deleteResponse ==
    /\ pc = "awaitDelete"
    /\ \E o \in Outcomes :
         /\ responses' = Append(responses, o)
         /\ IF o.status # StatusOK
            THEN Return(ResponseError(o)) /\ UNCHANGED out
            ELSE Return(NoError) /\ Output("Deleted")
    /\ UNCHANGED <<call, persistent, invocation, runE, creds, stdin, requests, exitCode, auth, chat>>

(***************************************************************************)
(* productions build: GET the production, check its spec, POST the build.  *)
(***************************************************************************)
productionsBuildCmd ==
    /\ HandlerHead("productions build")
    /\ UNCHANGED <<call, persistent, invocation, stdin, responses, out, exitCode, auth, chat>>
    /\ IF ThisHeadError("productions build") # "none"
       THEN Return(Error(ThisHeadError("productions build"))) /\ UNCHANGED requests
       ELSE Do("GET", "production", "awaitBuildGet") /\ err' = NoError

\* mutant: a spec of JSON null passes for a spec
HasSpecOrNull(body) == body \in {"null", "empty", "populated"}

\* production.Spec != nil after json.NewDecoder(getResp.Body).Decode(&production)
\* with the error dropped: the map is allocated for a JSON object only
HasSpec(body) == body \in {"empty", "populated"}

\* mutant: the flag is not looked at
ValidateOnlyIgnored(fl) == FALSE

\* validateOnly, _ := cmd.Flags().GetBool("validate-only")
ValidateOnly(fl) == "validate-only" \in fl

\* mutant: any response to the GET lets the build go on
GetSucceededAny(o) == o.status # NoResponse

\* err == nil from Do and getResp.StatusCode == http.StatusOK
GetSucceeded(o) == o.status = StatusOK

productionsBuildCmd_get ==
    /\ pc = "awaitBuildGet"
    /\ \E o \in Outcomes :
         /\ responses' = Append(responses, o)
         /\ IF ~GetSucceeded(o)
            THEN Return(ResponseError(o)) /\ UNCHANGED <<requests, out>>
            ELSE IF ~HasSpec(o.body)
            THEN Return(Error("production has no spec")) /\ UNCHANGED <<requests, out>>
            ELSE IF ValidateOnly(flags)
            THEN Output("[validate-only] ready to build") /\ Return(NoError) /\ UNCHANGED requests
            ELSE Do("POST", "production/build", "awaitBuildPost") /\ UNCHANGED <<out, err>>
    /\ UNCHANGED <<call, persistent, invocation, runE, creds, stdin, exitCode, auth, chat>>

\* mutant: the 409 case is not told apart
BuildPostErrorGeneric(o) == ResponseError(o)

\* the error returned for a build POST that is not 202
BuildPostError(o) ==
    IF o.status = NoResponse THEN Error("request failed")
    ELSE IF o.status = StatusConflict THEN Error("build already in progress")
    ELSE APIError(o.status)

productionsBuildCmd_post ==
    /\ pc = "awaitBuildPost"
    /\ \E o \in Outcomes :
         /\ responses' = Append(responses, o)
         /\ IF o.status = StatusAccepted
            THEN Output("Build started") /\ Return(NoError)
            ELSE Return(BuildPostError(o)) /\ UNCHANGED out
    /\ UNCHANGED <<call, persistent, invocation, runE, creds, stdin, requests, exitCode, auth, chat>>

(***************************************************************************)
(* assets upload: POST the metadata, PUT the bytes to the returned URL.    *)
(***************************************************************************)
assetsUploadCmd ==
    /\ HandlerHead("assets upload")
    /\ UNCHANGED <<call, persistent, invocation, stdin, responses, exitCode, auth, chat>>
    /\ IF ThisHeadError("assets upload") # "none"
       THEN Return(Error(ThisHeadError("assets upload"))) /\ UNCHANGED <<requests, out>>
       ELSE IF ~args.fileOK
       THEN Return(Error("cannot access file")) /\ UNCHANGED <<requests, out>>
       ELSE Output("Uploading") /\ Do("POST", "assets", "awaitCreate") /\ err' = NoError

\* createResult.UploadURL after Decode with the error dropped
UploadURL(body) == IF body = "populated" THEN "uploadUrl" ELSE ""

assetsUploadCmd_create ==
    /\ pc = "awaitCreate"
    /\ \E o \in Outcomes, opened \in BOOLEAN :
         /\ responses' = Append(responses, o)
         /\ IF o.status # StatusCreated
            THEN Return(ResponseError(o)) /\ UNCHANGED requests
            ELSE IF ~opened
            THEN Return(Error("cannot open file")) /\ UNCHANGED requests
            ELSE Do("PUT", UploadURL(o.body), "awaitUpload") /\ UNCHANGED err
    /\ UNCHANGED <<call, persistent, invocation, runE, creds, stdin, out, exitCode, auth, chat>>

\* the outcomes of the PUT: a request without a URL never leaves the client
PutOutcomes == IF requests[Len(requests)].target = ""
               THEN {o \in Outcomes : o.status = NoResponse}
               ELSE Outcomes

\* mutant: the PUT's failure is reported like the failure of an API call
UploadErrorAsAPIError(o) == ResponseError(o)

\* fmt.Errorf("upload failed: %w", err) and fmt.Errorf("upload failed (%d): %s", ...)
UploadError(o) ==
    IF o.status = NoResponse THEN Error("upload failed")
    ELSE [kind |-> "upload failed", status |-> o.status]

assetsUploadCmd_put ==
    /\ pc = "awaitUpload"
    /\ \E o \in PutOutcomes :
         /\ responses' = Append(responses, o)
         /\ IF o.status = NoResponse \/ (o.status # StatusOK /\ o.status # StatusCreated)
            THEN Return(UploadError(o)) /\ UNCHANGED out
            ELSE Output("Uploaded") /\ Return(NoError)
    /\ UNCHANGED <<call, persistent, invocation, runE, creds, stdin, requests, exitCode, auth, chat>>

(***************************************************************************)
(* auth logout and auth status.                                            *)
(***************************************************************************)
\* keyring.Delete, viper.Set("api_key", ""), viper.Set("workspace_id", ""),
\* viper.WriteConfig(), every error dropped: the keyring entry is gone when
\* Delete succeeded and the config file is rewritten when WriteConfig did
authLogoutCmd ==
    /\ pc = "runE"
    /\ cmd = "auth logout"
    /\ runE' = TRUE
    /\ \E deleted \in BOOLEAN, saved \in BOOLEAN :
         /\ keyring' = IF deleted THEN [err |-> TRUE, secret |-> ""] ELSE keyring
         /\ viper' = IF saved THEN [api_key |-> "", workspace_id |-> ""] ELSE viper
    /\ Output("Logged out")
    /\ Return(NoError)
    /\ UNCHANGED <<call, envKey, invocation, creds, stdin, requests, responses, exitCode, auth, chat>>

\* the characters of the keys of the model
KeyChars(k) ==
    CASE k = "sk_test"      -> <<"s", "k", "_", "t", "e", "s", "t">>
      [] k = "sk_live_cfg"  -> <<"s", "k", "_", "l", "i", "v", "e", "_", "c", "f", "g">>
      [] k = "sk_live_ring" -> <<"s", "k", "_", "l", "i", "v", "e", "_", "r", "i", "n", "g">>
      [] OTHER              -> <<>>

\* the characters auth status shows of the head and of the tail of the key
RedactHead == 12
RedactTail == 4

\* apiKey[:12] and apiKey[len(apiKey)-4:] panic on a key that is too short
RedactPanics(k) == Len(k) < RedactHead \/ Len(k) < RedactTail

\* redacted := apiKey[:12] + "..." + apiKey[len(apiKey)-4:]
Redact(k) == SubSeq(k, 1, RedactHead) \o <<".", ".", ".">>
             \o SubSeq(k, Len(k) - RedactTail + 1, Len(k))

\* mutant: the report leaves the workspace out
StatusReportBare(key, ws) ==
    IF key = "" THEN <<"Not authenticated">> ELSE <<"API Key:", "API URL:">>

\* the lines auth status prints, the redacted key apart
StatusReport(key, ws) ==
    IF key = "" THEN <<"Not authenticated", "Run 'hy auth login' to authenticate">>
    ELSE <<"API Key:", "Workspace:", ws, "API URL:">>

authStatusCmd ==
    /\ pc = "runE"
    /\ cmd = "auth status"
    /\ runE' = TRUE
    /\ apiKey' = GetAPIKey(envKey, keyring, viper.api_key)
    /\ workspaceID' = GetWorkspaceID
    /\ IF apiKey' = ""
       THEN /\ out' = out \o StatusReport(apiKey', workspaceID')
            /\ Return(NoError)
            /\ UNCHANGED keyShown
       ELSE IF RedactPanics(KeyChars(apiKey'))
       THEN Return(Error("panic")) /\ UNCHANGED <<out, keyShown>>
       ELSE /\ keyShown' = Redact(KeyChars(apiKey'))
            /\ out' = out \o StatusReport(apiKey', workspaceID')
            /\ Return(NoError)
    /\ UNCHANGED <<call, persistent, invocation, stdin, chat, requests, responses, exitCode, login>>

(***************************************************************************)
(* auth login: the local callback server, the result channel and the       *)
(* select of runAuthLogin on the channel and the five-minute context.      *)
(***************************************************************************)
\* the requests a browser may send to the local server: a path and the
\* query parameters key, workspace and error, each present or not
CallbackKey == "sk_live_ring"
CallbackWorkspace == "ws_test123"
Queries == [path : {"/callback", "/favicon.ico"}, key : {"", CallbackKey},
            workspace : {"", CallbackWorkspace}, error : {"", "access_denied"}]

\* type authResult struct { apiKey, workspaceID string; err error }
authResult(e, k, w) == [err |-> e, apiKey |-> k, workspaceID |-> w]

\* net.Listen on a free port, the server goroutine started, the browser
\* opened, up to the select
runAuthLogin ==
    /\ pc = "runE"
    /\ cmd = "auth login"
    /\ runE' = TRUE
    /\ \E listened \in BOOLEAN, opened \in BOOLEAN :
         IF ~listened
         THEN Return(Error("failed to start local server")) /\ UNCHANGED <<out, login>>
         ELSE /\ login' = [NoLogin EXCEPT !.server = "starting"]
              /\ out' = out \o <<"Opening browser to authenticate...">>
                         \o (IF opened THEN <<>> ELSE <<"Could not open browser">>)
                         \o <<"Waiting for authentication...">>
              /\ pc' = "select"
              /\ err' = NoError
    /\ UNCHANGED <<call, persistent, invocation, creds, stdin, chat, requests, responses, exitCode,
                   keyShown>>

\* resultCh <- r : the result goes into the buffer when there is room,
\* otherwise the sending goroutine blocks
Send(l, r) ==
    IF Len(l.resultCh) < 1 THEN [l EXCEPT !.resultCh = Append(@, r)]
    ELSE [l EXCEPT !.sendq = Append(@, r)]

\* go func() { if err := server.ListenAndServe(); err != http.ErrServerClosed
\* { resultCh <- authResult{err: err} } }(): the port probed by net.Listen was
\* closed again and may be taken by now
ListenAndServe ==
    /\ pc \in {"select", "shutdown"}
    /\ login.server = "starting"
    /\ \E bound \in BOOLEAN :
         login' = IF bound THEN [login EXCEPT !.server = "serving"]
                  ELSE Send([login EXCEPT !.server = "failed"],
                            authResult("listen failed", "", ""))
    /\ UNCHANGED <<call, persistent, pc, invocation, runE, creds, stdin, chat, requests, responses,
                   out, err, exitCode, keyShown>>

\* mutant: a callback without a workspace passes for a complete one
MissingCredentialsKeyOnly(q) == q.key = ""

\* apiKey == "" || workspaceID == ""
MissingCredentials(q) == q.key = "" \/ q.workspace = ""

\* the handler on request q: nothing is sent for another path, the error
\* parameter is looked at before the credentials
Handler(l, q) ==
    IF q.path # "/callback" THEN l
    ELSE IF q.error # "" THEN Send(l, authResult(q.error, "", ""))
    ELSE IF MissingCredentials(q)
    THEN Send(l, authResult("missing credentials in callback", "", ""))
    ELSE Send(l, authResult("", q.key, q.workspace))

\* the server's handler, run in a goroutine of its own for every request
callbackHandler ==
    /\ login.server = "serving"
    /\ login.arrived < MaxCallbacks
    /\ \E q \in Queries : login' = Handler([login EXCEPT !.arrived = @ + 1], q)
    /\ UNCHANGED <<call, persistent, pc, invocation, runE, creds, stdin, chat, requests, responses,
                   out, err, exitCode, keyShown>>

\* context.WithTimeout(context.Background(), 5*time.Minute) expires
contextDone ==
    /\ pc = "select"
    /\ ~login.expired
    /\ login' = [login EXCEPT !.expired = TRUE]
    /\ UNCHANGED <<call, persistent, pc, invocation, runE, creds, stdin, chat, requests, responses,
                   out, err, exitCode, keyShown>>

\* mutant: the waiting side comes back to the select after Shutdown
SelectWaitsAgain(p) == p \in {"select", "shutdownWait"}

\* the select statement is executed once
SelectWaits(p) == p = "select"

\* case result := <-resultCh: a goroutine blocked on the channel moves its
\* result into the freed buffer
runAuthLogin_result ==
    /\ SelectWaits(pc)
    /\ login.resultCh # <<>>
    /\ login' = [login EXCEPT !.received = @ + 1,
                              !.result = Head(login.resultCh),
                              !.resultCh = IF login.sendq # <<>> THEN <<Head(login.sendq)>>
                                           ELSE <<>>,
                              !.sendq = IF login.sendq # <<>> THEN Tail(@) ELSE <<>>]
    /\ pc' = "shutdown"
    /\ UNCHANGED <<call, persistent, invocation, runE, creds, stdin, chat, requests, responses,
                   out, err, exitCode, keyShown>>

\* case <-ctx.Done()
runAuthLogin_timeout ==
    /\ SelectWaits(pc)
    /\ login.expired
    /\ login' = [login EXCEPT !.timedOut = TRUE]
    /\ pc' = "shutdown"
    /\ UNCHANGED <<call, persistent, invocation, runE, creds, stdin, chat, requests, responses,
                   out, err, exitCode, keyShown>>

\* server.Shutdown(context.Background()), first half: the listener is closed
Shutdown ==
    /\ pc = "shutdown"
    /\ login' = [login EXCEPT !.server = IF @ \in {"starting", "serving"} THEN "closed" ELSE @]
    /\ pc' = "shutdownWait"
    /\ UNCHANGED <<call, persistent, invocation, runE, creds, stdin, chat, requests, responses,
                   out, err, exitCode, keyShown>>

\* server.Shutdown waits, without a deadline, until no connection is active:
\* a handler blocked on resultCh keeps its connection active
ShutdownReturns(l) == l.sendq = <<>>

\* mutant: the key goes into the config file whether or not the keyring took it
FallbackKeyAlways(stored, key, old) == key

\* viper's api_key after the login: viper.Set("api_key", result.apiKey) runs
\* only in the branch where keyring.Set returned an error
FallbackKey(stored, key, old) == IF stored THEN old ELSE key

\* the rest of runAuthLogin once Shutdown has returned: the timeout error,
\* the authentication error, or the credentials stored with keyring.Set
\* (viper's api_key when that fails) and viper.WriteConfig
runAuthLogin_store ==
    /\ pc = "shutdownWait"
    /\ ShutdownReturns(login)
    /\ IF login.timedOut
       THEN Return(Error("authentication timed out")) /\ UNCHANGED <<keyring, viper, out>>
       ELSE IF login.result.err # ""
       THEN Return(Error("authentication failed")) /\ UNCHANGED <<keyring, viper, out>>
       ELSE \E stored \in BOOLEAN, saved \in BOOLEAN :
              /\ keyring' = IF stored THEN [err |-> FALSE, secret |-> login.result.apiKey]
                            ELSE keyring
              /\ viper' = IF saved
                          THEN [api_key |-> FallbackKey(stored, login.result.apiKey, viper.api_key),
                                workspace_id |-> login.result.workspaceID]
                          ELSE viper
              /\ IF saved
                 THEN /\ out' = out \o (IF stored THEN <<>> ELSE <<"Warning: storing in config file">>)
                                    \o <<"Authenticated successfully", login.result.workspaceID>>
                      /\ Return(NoError)
                 ELSE /\ out' = out \o (IF stored THEN <<>> ELSE <<"Warning: storing in config file">>)
                      /\ Return(Error("failed to save config"))
    /\ UNCHANGED <<call, envKey, invocation, runE, creds, stdin, requests, responses, exitCode, auth, chat>>

(***************************************************************************)
(* main: exit status 1 when Execute returned an error, 0 otherwise; a      *)
(* panic ends the process with status 2.                                   *)
(***************************************************************************)
PanicExit == 2

Exit ==
    /\ pc = "done"
    /\ pc' = "exited"
    /\ exitCode' = IF err.kind = "panic" THEN PanicExit
                   ELSE IF err.kind # "none" THEN 1 ELSE 0
    /\ UNCHANGED <<call, persistent, invocation, runE, creds, stdin, chat, requests, responses, out, err,
                   auth, chat>>

\* the next invocation of hy is a new process: nothing of the last one is
\* left but the environment, the keyring and the config file
NewProcess ==
    /\ pc = "exited"
    /\ pc' = "idle"
    /\ cmd' = "productions list"
    /\ flags' = {}
    /\ args' = NoArgs
    /\ runE' = FALSE
    /\ apiKey' = ""
    /\ workspaceID' = ""
    /\ stdinReads' = 0
    /\ stdinLast' = EOFInput
    /\ requests' = <<>>
    /\ responses' = <<>>
    /\ out' = <<>>
    /\ err' = NoError
    /\ exitCode' = -1
    /\ keyShown' = <<>>
    /\ login' = NoLogin
    /\ scanned' = <<>>
    /\ sent' = <<>>
    /\ UNCHANGED <<persistent, call>>

Next ==
    \/ NewProcess
    \/ Execute
    \/ productionsListCmd
    \/ productionsGetCmd
    \/ productionsStatusCmd
    \/ productionsCreateCmd
    \/ productionsBuildCmd
    \/ productionsBuildCmd_get
    \/ productionsBuildCmd_post
    \/ productionsDeleteCmd
    \/ assetsListCmd
    \/ assetsGetCmd
    \/ assetsUploadCmd
    \/ assetsUploadCmd_create
    \/ assetsUploadCmd_put
    \/ assetsDeleteCmd
    \/ readConfirmation
    \/ deleteResponse
    \/ keysListCmd
    \/ keysCreateCmd
    \/ keysRevokeCmd
    \/ threadChatCmd
    \/ interactiveChat
    \/ interactiveChat_response
    \/ threadHistoryCmd
    \/ handleResponse
    \/ authLogoutCmd
    \/ authStatusCmd
    \/ runAuthLogin
    \/ ListenAndServe
    \/ callbackHandler
    \/ contextDone
    \/ runAuthLogin_result
    \/ runAuthLogin_timeout
    \/ Shutdown
    \/ runAuthLogin_store
    \/ Exit

Spec == Init /\ [][Next]_vars

(***************************************************************************)
(* The login flow on its own, with the fairness its scheduling gives: the  *)
(* goroutine of runAuthLogin and the server goroutine are scheduled when   *)
(* they can take a step, and the context's timer fires.  The browser's     *)
(* requests are under no obligation.                                       *)
(***************************************************************************)
\* hy auth login
ExecuteAuthLogin == Execute /\ cmd' = "auth login"

LoginNext ==
    \/ NewProcess
    \/ ExecuteAuthLogin
    \/ runAuthLogin
    \/ ListenAndServe
    \/ callbackHandler
    \/ contextDone
    \/ runAuthLogin_result
    \/ runAuthLogin_timeout
    \/ Shutdown
    \/ runAuthLogin_store
    \/ Exit

LoginFairness ==
    /\ WF_vars(runAuthLogin)
    /\ WF_vars(ListenAndServe)
    /\ WF_vars(contextDone)
    /\ WF_vars(runAuthLogin_result)
    /\ WF_vars(runAuthLogin_timeout)
    /\ WF_vars(Shutdown)
    /\ WF_vars(runAuthLogin_store)
    /\ WF_vars(Exit)

LoginSpec == Init /\ [][LoginNext]_vars /\ LoginFairness

(***************************************************************************)
(* formatBytes.  An int64 byte count is held as its base-1024 limbs, most   *)
(* significant first and without a leading zero limb, so that the whole     *)
(* 64-bit range is covered: 2^63 = 8 * 1024^6, seven limbs at most and the  *)
(* first of seven at most 7.                                                *)
(***************************************************************************)
\* const unit = 1024
Unit == 1024
\* the limbs of a non-negative int64, and the most the first of them can be
Int64Limbs == 7
TopLimbMax == 7
\* the significand of a float64
Float64Bits == 53

\* the limb values the byte counts are drawn from
LimbValues == {0, 1, 7, 512, Unit - 1}

ByteCounts ==
    {<<d>> : d \in LimbValues} \cup
    {b \in UNION {[1..n -> LimbValues] : n \in 2..Int64Limbs} :
        /\ b[1] # 0
        /\ Len(b) = Int64Limbs => b[1] <= TopLimbMax}

\* bytes < unit
LessThanUnit(n) == Len(n) = 1

\* mutant: the loop goes on while n > unit
MoreThanUnit(n) == Len(n) >= 2 /\ n # <<1, 0>>

\* n >= unit
AtLeastUnit(n) == Len(n) >= 2

\* n / unit on int64
DivUnit(n) == IF Len(n) = 1 THEN <<0>> ELSE SubSeq(n, 1, Len(n) - 1)

RECURSIVE Loop(_, _)
\* for n := bytes / unit; n >= unit; n /= unit { div *= unit; exp++ }
\* div is unit^(exp+1) throughout
Loop(n, exp) == IF AtLeastUnit(n) THEN Loop(DivUnit(n), exp + 1) ELSE exp

\* the number of binary digits of a limb
BitLen(t) == CHOOSE k \in 0..10 : t < 2^k /\ (k = 0 \/ t >= 2^(k - 1))

RECURSIVE Increment(_)
\* n + 1
Increment(n) == IF n = <<>> THEN <<1>>
                ELSE IF n[Len(n)] < Unit - 1 THEN [n EXCEPT ![Len(n)] = @ + 1]
                ELSE Increment(SubSeq(n, 1, Len(n) - 1)) \o <<0>>

\* float64(bytes): the nearest value with 53 significant bits, ties to even;
\* an int64 has at most 10 bits too many and they are all in the last limb
Float64(n) ==
    LET s == 10 * (Len(n) - 1) + BitLen(n[1]) - Float64Bits IN
    IF s <= 0 THEN n
    ELSE LET d0 == n[Len(n)]
             q == d0 \div 2^s
             r == d0 % 2^s
             odd == IF s < 10 THEN q % 2 = 1 ELSE n[Len(n) - 1] % 2 = 1
             up == r > 2^(s - 1) \/ (r = 2^(s - 1) /\ odd)
             kept == (q + (IF up THEN 1 ELSE 0)) * 2^s
         IN IF kept < Unit THEN [n EXCEPT ![Len(n)] = kept]
            ELSE Increment(SubSeq(n, 1, Len(n) - 1)) \o <<0>>

RECURSIVE MulTen(_, _)
\* ten times a fraction given by its limbs: the first limb of the result is
\* the integer part, the others the fraction left
MulTen(ds, carry) ==
    IF ds = <<>> THEN <<carry>>
    ELSE LET v == ds[Len(ds)] * 10 + carry
         IN MulTen(SubSeq(ds, 1, Len(ds) - 1), v \div Unit) \o <<v % Unit>>

RECURSIVE Above(_, _)
\* a > b for two fractions of the same number of limbs
Above(a, b) == IF a = <<>> THEN FALSE
               ELSE IF a[1] # b[1] THEN a[1] > b[1]
               ELSE Above(Tail(a), Tail(b))

\* one half as a fraction of k limbs
Half(k) == [i \in 1..k |-> IF i = 1 THEN Unit \div 2 ELSE 0]

\* fmt.Sprintf("%.1f %cB", float64(bytes)/float64(div), "KMGTPE"[exp]): the
\* quotient by a power of two is exact, one decimal is kept and a tie goes
\* to the even digit
Sprintf1f(f, exp) ==
    LET k == exp + 1
        whole == IF Len(f) - k = 1 THEN f[1] ELSE f[1] * Unit + f[2]
        t == MulTen(SubSeq(f, Len(f) - k + 1, Len(f)), 0)
        up == Above(Tail(t), Half(k)) \/ (Tail(t) = Half(k) /\ t[1] % 2 = 1)
        tenths == t[1] + (IF up THEN 1 ELSE 0)
    IN [int |-> IF tenths = 10 THEN whole + 1 ELSE whole,
        frac |-> <<tenths % 10>>,
        unit |-> SubSeq("KMGTPE", exp + 1, exp + 1) \o "B"]

\* formatBytes(bytes int64) string, as the number before the point, the
\* decimals after it and the unit
formatBytes(bytes) ==
    IF LessThanUnit(bytes)
    THEN [int |-> bytes[1], frac |-> <<>>, unit |-> "B"]
    ELSE Sprintf1f(Float64(bytes), Loop(DivUnit(bytes), 0))

(***************************************************************************)
(* detectMimeType and detectAssetType, on strings.                         *)
(***************************************************************************)
RECURSIVE ExtFrom(_, _)
\* filepath.Ext: for i := len(path) - 1; i >= 0 && !os.IsPathSeparator(path[i]); i--
\* { if path[i] == '.' { return path[i:] } }; return ""
ExtFrom(path, i) ==
    IF i < 1 \/ SubSeq(path, i, i) = "/" THEN ""
    ELSE IF SubSeq(path, i, i) = "." THEN SubSeq(path, i, Len(path))
    ELSE ExtFrom(path, i - 1)

Ext(path) == ExtFrom(path, Len(path))

RECURSIVE ToLowerString(_)
\* strings.ToLower on a string
ToLowerString(str) ==
    IF str = "" THEN ""
    ELSE ToLowerChar(SubSeq(str, 1, 1)) \o ToLowerString(SubSeq(str, 2, Len(str)))

\* mimeTypes := map[string]string{ ... }
mimeTypes == {<<".mp4", "video/mp4">>, <<".mov", "video/quicktime">>,
              <<".avi", "video/x-msvideo">>, <<".webm", "video/webm">>,
              <<".jpg", "image/jpeg">>, <<".jpeg", "image/jpeg">>,
              <<".png", "image/png">>, <<".gif", "image/gif">>,
              <<".webp", "image/webp">>, <<".mp3", "audio/mpeg">>,
              <<".wav", "audio/wav">>, <<".m4a", "audio/mp4">>,
              <<".aac", "audio/aac">>, <<".ttf", "font/ttf">>,
              <<".otf", "font/otf">>, <<".woff", "font/woff">>,
              <<".woff2", "font/woff2">>}

\* mutant: the extension is looked up as it is written
ExtKeyAsWritten(filePath) == Ext(filePath)

\* ext := strings.ToLower(filepath.Ext(filePath))
ExtKey(filePath) == ToLowerString(Ext(filePath))

\* if mime, ok := mimeTypes[ext]; ok { return mime }; return "application/octet-stream"
detectMimeType(filePath) ==
    LET ext == ExtKey(filePath) IN
    IF \E e \in mimeTypes : e[1] = ext
    THEN (CHOOSE e \in mimeTypes : e[1] = ext)[2]
    ELSE "application/octet-stream"

\* strings.HasPrefix(s, prefix)
HasPrefix(str, prefix) ==
    Len(str) >= Len(prefix) /\ SubSeq(str, 1, Len(prefix)) = prefix

\* mutant: a MIME type of no known family is of type other
DefaultAssetTypeOther == "other"

\* default: return "video"
DefaultAssetType == "video"

\* switch { case strings.HasPrefix(mimeType, "video/"): return "video" ... }
detectAssetType(mimeType) ==
    IF HasPrefix(mimeType, "video/") THEN "video"
    ELSE IF HasPrefix(mimeType, "image/") THEN "image"
    ELSE IF HasPrefix(mimeType, "audio/") THEN "audio"
    ELSE IF HasPrefix(mimeType, "font/") THEN "font"
    ELSE DefaultAssetType

\* the paths and MIME types the two functions are applied to
Stems == {"", "clip", "my.clips/take", "clips.mp4/take", "take.2"}
Extensions == {e[1] : e \in mimeTypes} \cup
              {"", ".", ".MP4", ".Mov", ".JPG", ".jPeG", ".PNG", ".WOFF2", ".Wav",
               ".xyz", ".mp", ".mp44", ".tar.gz", ".mp4.bak", ".png "}
Paths == {stem \o e : stem \in Stems, e \in Extensions}

MimeArgs == {e[2] : e \in mimeTypes} \cup
            {"", "application/octet-stream", "video", "video/", "image/svg+xml",
             "Video/mp4", "text/video/mp4", " image/png", "audio", "fonts/ttf",
             "application/font-woff", "font/"}

(***************************************************************************)
(* The helper functions on their own: a call is set up with one of the      *)
(* arguments and the function is applied to it.                             *)
(***************************************************************************)
CallOf(fn, inputs) == {[NoCall EXCEPT !.fn = fn, !.arg = a] : a \in inputs}

Apply(fn, result) ==
    /\ call.fn = fn
    /\ ~call.done
    /\ call' = [call EXCEPT !.ret = result, !.done = TRUE]
    /\ UNCHANGED <<persistent, pc, invocation, runE, creds, stdin, requests, responses,
                   out, err, exitCode, auth, chat>>

formatBytes_call == Apply("formatBytes", formatBytes(call.arg))

detectMimeType_call == Apply("detectMimeType", detectMimeType(call.arg))

detectAssetType_call == Apply("detectAssetType", detectAssetType(call.arg))

PureCalls == CallOf("formatBytes", ByteCounts) \cup CallOf("detectMimeType", Paths)
             \cup CallOf("detectAssetType", MimeArgs)

PureInit ==
    /\ Constructed
    /\ envKey = ""
    /\ keyring = [err |-> FALSE, secret |-> ""]
    /\ viper = [api_key |-> "", workspace_id |-> ""]
    /\ call \in PureCalls

PureNext == formatBytes_call \/ detectMimeType_call \/ detectAssetType_call

PureSpec == PureInit /\ [][PureNext]_vars

TypeOK ==
    /\ envKey \in {"", "sk_test"}
    /\ keyring \in KeyringStates
    /\ pc \in {"idle", "runE", "confirm", "await", "awaitDelete", "awaitBuildGet",
               "awaitBuildPost", "awaitCreate", "awaitUpload", "chatRead", "chatAwait",
               "select", "shutdown", "shutdownWait", "done", "exited"}
    /\ cmd \in AllCommands
    /\ flags \subseteq FlagNames
    /\ runE \in BOOLEAN
    /\ stdinReads \in 0..(MaxChatReads + 1)
    /\ Len(responses) <= Len(requests)
    /\ Len(requests) <= IF cmd = "thread chat" THEN MaxChatReads ELSE 2
    /\ exitCode \in {-1, 0, 1, PanicExit}
    /\ Len(login.resultCh) <= 1
    /\ login.arrived \in 0..MaxCallbacks
    /\ login.received \in 0..1
    /\ Len(scanned) <= MaxChatReads
    /\ Len(sent) <= Len(scanned) + 1

(***************************************************************************)
(* Properties.                                                             *)
(***************************************************************************)
Range(q) == {q[i] : i \in 1..Len(q)}

Methods(q) == {q[i].method : i \in 1..Len(q)}

Returned == pc \in {"done", "exited"}

DeleteCmds == {"productions delete", "assets delete"}

RECURSIVE FirstNonEmpty(_)
FirstNonEmpty(layers) ==
    IF layers = <<>> THEN ""
    ELSE IF Head(layers) # "" THEN Head(layers) ELSE FirstNonEmpty(Tail(layers))

\* what the keyring layer yields: its secret, nothing when Get fails
KeyringValue == IF keyring.err THEN "" ELSE keyring.secret

RECURSIVE TrimRight(_)
TrimRight(l) == IF l = <<>> THEN <<>>
                ELSE IF l[Len(l)] = " " THEN TrimRight(SubSeq(l, 1, Len(l) - 1)) ELSE l

\* the line without the blanks around it
TrimSpace(l) == TrimRight(SkipSpace(l))

\* the characters of the line, case folded, are y or yes
IsYes(l) == \E w \in {<<"y">>, <<"y", "e", "s">>} :
               /\ Len(l) = Len(w)
               /\ \A i \in 1..Len(w) : l[i] = w[i] \/ (l[i] = "Y" /\ w[i] = "y")

\* C1: a handler that resolved an empty API key has returned the "not
\* authenticated" error and the invocation has issued no HTTP request.
C1_UnauthenticatedFailsFast ==
    (cmd \in Commands /\ runE /\ apiKey = "") =>
        /\ Returned
        /\ err = Error("not authenticated")
        /\ requests = <<>>

C1_Witness ==
    /\ runE /\ apiKey = "" /\ pc = "exited" /\ exitCode = 1
    /\ cmd = "keys revoke"

\* C2: a handler that resolved an empty workspace id has issued no HTTP
\* request.
C2_NoWorkspaceFailsFast ==
    (runE /\ workspaceID = "") => requests = <<>>

\* C3: the key GetAPIKey resolves is the first non-empty value among the
\* HY_API_KEY variable, the keyring entry and the config file's api_key.
C3_FirstNonEmptyWins ==
    (cmd \in Commands /\ runE) => apiKey = FirstNonEmpty(<<envKey, KeyringValue, viper.api_key>>)

\* C4: a delete run without --force whose confirmation was declined has
\* printed "Cancelled", returned no error, exits with 0 and issued no request.
C4_DeclinedCancels ==
    (cmd \in DeleteCmds /\ stdinReads = 1 /\ ~IsYes(Scanln(stdinLast))) =>
        /\ Returned
        /\ out = <<"[y/N]", "Cancelled">>
        /\ err = NoError
        /\ requests = <<>>
        /\ pc = "exited" => exitCode = 0

C4_Witness ==
    /\ cmd = "assets delete" /\ pc = "exited" /\ exitCode = 0
    /\ stdinLast = [eof |-> FALSE, line |-> <<"n">>]
    /\ out = <<"[y/N]", "Cancelled">>

\* C5: the confirmation of a delete resolves to confirmed, that is the DELETE
\* is issued, exactly when the line read is y or yes ignoring case (blanks
\* around the answer are let pass here); every other line and end of file
\* decline.
C5_ConfirmedExactlyOnYes ==
    (cmd \in DeleteCmds /\ stdinReads = 1) =>
        (requests # <<>> <=> (~stdinLast.eof /\ IsYes(TrimSpace(stdinLast.line))))

\* C6: a delete run with --force never prompts and never reads standard
\* input, issues exactly one DELETE, and prints the success message on 200.
C6_ForceGoesStraightToDelete ==
    (cmd \in DeleteCmds /\ runE /\ "force" \in flags /\ apiKey # "") =>
        /\ stdinReads = 0
        /\ "[y/N]" \notin Range(out)
        /\ requests = <<[method |-> "DELETE", target |-> cmd]>>
        /\ (responses # <<>> /\ responses[1].status = 200) =>
               (out = <<"Deleted">> /\ err = NoError /\ Returned)

C6_Witness ==
    /\ cmd = "productions delete" /\ "force" \in flags /\ pc = "exited"
    /\ Len(responses) = 1 /\ responses[1].status = 200
    /\ out = <<"Deleted">> /\ exitCode = 0

\* C7: keys revoke issues its DELETE only after an affirmative confirmation
\* or with the force flag, and a keys revoke run with --force and a key in
\* HY_API_KEY fails only on a response other than 200.
C7_RevokeOnlyWhenConfirmed ==
    /\ (cmd = "keys revoke" /\ requests # <<>>) =>
           \/ "force" \in flags
           \/ stdinReads = 1 /\ IsYes(Scanln(stdinLast))
    /\ (cmd = "keys revoke" /\ flags = {"force"} /\ envKey # "" /\ Returned /\ err # NoError) =>
           (responses # <<>> /\ responses[1].status # 200)

\* C8: a build whose GET returned 200 with the spec absent or null has failed
\* with the "no spec" error after that one request, whatever --validate-only.
C8_NoSpecNoPost ==
    (cmd = "productions build" /\ responses # <<>>
       /\ responses[1].status = 200 /\ responses[1].body \in {"absent", "null"}) =>
        /\ Returned
        /\ err = Error("production has no spec")
        /\ requests = <<[method |-> "GET", target |-> "production"]>>

C8_Witness ==
    /\ cmd = "productions build" /\ flags = {} /\ pc = "exited" /\ exitCode = 1
    /\ responses = <<Reply(200, "null", <<>>, FALSE)>>
    /\ err = Error("production has no spec")

\* C9: a build run with --validate-only never issues a POST, and it reports
\* the production ready only after a GET that returned 200 with a spec.
C9_ValidateOnlyNeverPosts ==
    (cmd = "productions build" /\ "validate-only" \in flags) =>
        /\ "POST" \notin Methods(requests)
        /\ "[validate-only] ready to build" \in Range(out) =>
               /\ Len(responses) = 1
               /\ responses[1].status = 200
               /\ responses[1].body \in {"empty", "populated"}
               /\ err = NoError

C9_Witness ==
    /\ cmd = "productions build" /\ "validate-only" \in flags /\ pc = "exited"
    /\ out = <<"[validate-only] ready to build">>
    /\ responses = <<Reply(200, "populated", <<>>, FALSE)>>
    /\ exitCode = 0

\* C10: a build whose POST returned 409 fails with "build already in
\* progress"; a POST status other than 202 and 409 fails with the generic
\* API error carrying that status.
C10_ConflictRemapped ==
    (cmd = "productions build" /\ Len(responses) = 2) =>
        /\ responses[2].status = 409 => err = Error("build already in progress")
        /\ responses[2].status \notin {0, 202, 409} => err = APIError(responses[2].status)

C10_Witness ==
    /\ cmd = "productions build" /\ pc = "exited" /\ exitCode = 1
    /\ Len(responses) = 2 /\ responses[1].body = "populated" /\ responses[2].status = 409
    /\ err = Error("build already in progress")

\* C11: in an assets upload run, a metadata POST that got no response or a
\* status other than 201 ends the run with a "request failed" or "API error"
\* error and no PUT; a PUT is issued only after a 201; a PUT that got no
\* response or a status other than 200 and 201 ends the run with an "upload
\* failed" error; and the run never issues a DELETE.
C11_UploadStepsReportedApart ==
    cmd = "assets upload" =>
        /\ "DELETE" \notin Methods(requests)
        /\ (responses # <<>> /\ responses[1].status # 201) =>
               /\ Returned
               /\ requests = <<[method |-> "POST", target |-> "assets"]>>
               /\ err.kind = IF responses[1].status = 0 THEN "request failed" ELSE "API error"
        /\ "PUT" \in Methods(requests) =>
               (responses # <<>> /\ responses[1].status = 201)
        /\ (Len(responses) = 2 /\ responses[2].status \notin {200, 201}) =>
               /\ Returned
               /\ err.kind = "upload failed"
               /\ err.status = responses[2].status

C11_Witness ==
    /\ cmd = "assets upload" /\ pc = "exited" /\ exitCode = 1
    /\ Methods(requests) = {"POST", "PUT"}
    /\ Len(responses) = 2 /\ responses[1].status = 201 /\ responses[2].status = 500
    /\ err = [kind |-> "upload failed", status |-> 500]

\* C12: in every productions, assets and keys command run with a key and a
\* workspace the last response received decides the outcome in one way: a status of 200, 201, 202 or 204
\* is not turned into an error that carries that status, a status from 400 to
\* 599 ends the run with an error, and no response at all ends the run with
\* a transport error.
C12_UniformClassification ==
    (cmd \in ProductionsCmds \cup AssetsCmds \cup KeysCmds /\ responses # <<>>
       /\ workspaceID # "") =>
        LET last == responses[Len(responses)].status IN
        /\ last \in {200, 201, 202, 204} => ~(Returned /\ err.status = last)
        /\ last \in 400..599 => (Returned /\ err # NoError)
        /\ last = 0 => (Returned /\ err.kind \in {"request failed", "upload failed"})

\* C13 as stated: a productions create run with a key and a workspace issues
\* its POST exactly when --name and --topic are non-empty and --dry-run is not
\* set; with a flag empty it fails with the validation error and no request;
\* with --dry-run and both flags it issues no request, succeeds and prints
\* the name and the topic as given.
C13_PostExactlyWhenNamedAndNotDry ==
    (cmd = "productions create" /\ runE /\ workspaceID # "") =>
        /\ ("POST" \in Methods(requests)) <=>
               (args.name # "" /\ args.topic # "" /\ "dry-run" \notin flags)
        /\ (args.name = "" \/ args.topic = "") =>
               (err = Error("--name and --topic are required") /\ requests = <<>>)
        /\ (args.name # "" /\ args.topic # "" /\ "dry-run" \in flags) =>
               /\ Returned /\ err = NoError /\ requests = <<>>
               /\ SubSeq(out, 1, 3) = <<"[dry-run] Would create production:", args.name, args.topic>>

\* C13 amended: the same, for runs whose --spec is not given or names a file
\* that holds a JSON object; a run whose --spec file cannot be read or parsed
\* fails with that error and no request, dry run or not.
C13_PostExactlyWhenValid ==
    (cmd = "productions create" /\ runE /\ workspaceID # "") =>
        /\ ("POST" \in Methods(requests)) <=>
               /\ args.name # "" /\ args.topic # "" /\ "dry-run" \notin flags
               /\ args.spec \in {"", "spec.json"}
        /\ (args.name = "" \/ args.topic = "") =>
               (err = Error("--name and --topic are required") /\ requests = <<>>)
        /\ (args.name # "" /\ args.topic # "" /\ args.spec \notin {"", "spec.json"}) =>
               /\ Returned /\ requests = <<>> /\ out = <<>>
               /\ err.kind \in {"failed to read spec file", "invalid spec JSON"}
        /\ (args.name # "" /\ args.topic # "" /\ "dry-run" \in flags
              /\ args.spec \in {"", "spec.json"}) =>
               /\ Returned /\ err = NoError /\ requests = <<>>
               /\ SubSeq(out, 1, 3) = <<"[dry-run] Would create production:", args.name, args.topic>>

C13_Witness ==
    /\ cmd = "productions create" /\ pc = "exited" /\ exitCode = 0
    /\ flags = {"dry-run"} /\ args.name = "X" /\ args.topic = "Y" /\ args.spec = "spec.json"
    /\ requests = <<>>
    /\ out = <<"[dry-run] Would create production:", "X", "Y", "spec.json">>

\* the header rows of the three tables
TableHeaders == {"ID NAME STATUS TOPIC", "ID NAME TYPE SIZE", "ID NAME PREFIX LAST USED"}

\* the line "No <resource> found" of each list command
NoneFound(c) ==
    CASE c = "productions list" -> "No productions found"
      [] c = "assets list"      -> "No assets found"
      [] c = "keys list"        -> "No API keys found"

\* C14: a productions, assets or keys list run that received a 200 with a
\* decodable body has printed, for an empty collection, the one line "No
\* <resource> found" and no header, and for a non-empty collection the header
\* row followed by one row per entity in the order of the response.
C14_ListRendering ==
    (cmd \in {"productions list", "assets list", "keys list"} /\ responses # <<>>
       /\ responses[1].status = 200 /\ responses[1].body # "garbage") =>
        LET items == responses[1].items IN
        /\ Returned /\ err = NoError
        /\ items = <<>> => out = <<NoneFound(cmd)>>
        /\ items # <<>> =>
               /\ Len(out) >= 1 + Len(items)
               /\ out[1] \in TableHeaders
               /\ \A i \in 1..Len(items) : out[1 + i] = items[i]
               /\ \A i \in 1..Len(out) : out[i] # NoneFound(cmd)

C14_Witness ==
    /\ cmd = "productions list" /\ pc = "exited" /\ exitCode = 0
    /\ responses = <<Reply(200, "empty", <<>>, FALSE)>>
    /\ out = <<"No productions found">>

\* an HTTP error response or a transport failure occurred in the invocation
HTTPFailure == \E i \in 1..Len(responses) :
                   responses[i].status = 0 \/ responses[i].status \in 400..599

\* C15: a process that has exited has the exit code 0 exactly when its
\* command returned no error, and a code other than 0 whenever one of its
\* requests got an HTTP error status or no response, a message sent from the
\* interactive chat loop included.
C15_ExitCodes ==
    pc = "exited" =>
        /\ exitCode = 0 <=> err = NoError
        /\ HTTPFailure => exitCode # 0

\* C16: in a login run the select takes at most one result from the channel
\* and never both a result and the timeout; a run that has returned the
\* timeout error took no result, and a run that has returned anything else
\* after the server was started took exactly one result and no timeout.
C16_OneResultOrTimeout ==
    /\ login.received <= 1
    /\ ~(login.received = 1 /\ login.timedOut)
    /\ (cmd = "auth login" /\ Returned /\ login.server # "off") =>
           /\ login.received = 1 \/ login.timedOut
           /\ err = Error("authentication timed out") <=> login.timedOut
           /\ err # Error("authentication timed out") <=> login.received = 1

C16_Witness ==
    /\ cmd = "auth login" /\ pc = "exited" /\ exitCode = 0
    /\ login.received = 1 /\ login.result = authResult("", CallbackKey, CallbackWorkspace) /\ ~login.timedOut
    /\ login.arrived = 2 /\ login.resultCh # <<>> /\ login.expired

\* C17: a login run that has reached its select eventually returns.
C17_LoginTerminates ==
    (cmd = "auth login" /\ pc = "select") ~> (cmd = "auth login" /\ Returned)

\* C18: once auth logout has returned, HY_API_KEY is not set and the config
\* file holds no key, GetAPIKey resolves the empty string, whatever the
\* keyring held and whatever keyring.Delete returned.
C18_LogoutClears ==
    (cmd = "auth logout" /\ runE /\ Returned /\ envKey = "" /\ viper.api_key = "") =>
        GetAPIKey(envKey, keyring, viper.api_key) = ""

\* what auth status prints for the stores as they are
StatusOutput ==
    LET key == GetAPIKey(envKey, keyring, viper.api_key) IN
    IF key = "" THEN <<"Not authenticated", "Run 'hy auth login' to authenticate">>
    ELSE IF Len(KeyChars(key)) < 12 THEN <<>>
    ELSE <<"API Key:", "Workspace:", viper.workspace_id, "API URL:">>

\* C19: an auth status run issues no request, its output is the one the environment, the keyring and the config file determine, and
\* no step of the run changes the keyring or the config file.
C19_StatusReadOnly ==
    /\ []((cmd = "auth status" /\ runE) =>
             (Returned /\ requests = <<>> /\ out = StatusOutput))
    /\ [][(cmd = "auth status" /\ cmd' = "auth status") => UNCHANGED persistent]_vars

C19_Witness ==
    /\ cmd = "auth status" /\ pc = "exited" /\ exitCode = 0
    /\ keyShown # <<>> /\ requests = <<>>
    /\ out = <<"API Key:", "Workspace:", "ws_test123", "API URL:">>

\* C20: a productions build run issues nothing but one GET and then at most
\* one POST, the POST only once the GET has been answered with 200 and a
\* spec, never while a request is still unanswered; a GET that got no
\* response or another status ends the run with that one request.
C20_BuildRequestsInOrder ==
    cmd = "productions build" =>
        /\ requests \in {<<>>,
                         <<[method |-> "GET", target |-> "production"]>>,
                         <<[method |-> "GET", target |-> "production"],
                           [method |-> "POST", target |-> "production/build"]>>}
        /\ Len(requests) - Len(responses) \in {0, 1}
        /\ Len(requests) = 2 =>
               /\ responses[1].status = 200
               /\ responses[1].body \in {"empty", "populated"}
        /\ (responses # <<>> /\ responses[1].status # 200) =>
               (Returned /\ Len(requests) = 1 /\ err # NoError)

C20_Witness ==
    /\ cmd = "productions build" /\ pc = "exited" /\ exitCode = 0
    /\ Methods(requests) = {"GET", "POST"} /\ Len(requests) = 2
    /\ Len(responses) = 2 /\ responses[1].status = 200 /\ responses[2].status = 202
    /\ out = <<"Build started">>

\* C21: a build whose GET, and an upload whose metadata POST, was answered
\* with the handler's success status and a body that is not JSON has
\* returned the "failed to parse response" error after that one request.
C21_MalformedSurfaced ==
    /\ (cmd = "productions build" /\ responses # <<>>
          /\ responses[1].status = 200 /\ responses[1].body = "garbage") =>
           (Returned /\ err = Error("failed to parse response") /\ Len(requests) = 1)
    /\ (cmd = "assets upload" /\ responses # <<>>
          /\ responses[1].status = 201 /\ responses[1].body = "garbage") =>
           (Returned /\ err = Error("failed to parse response") /\ Len(requests) = 1)

\* the commands whose handler makes two API calls
TwoCallCmds == {"productions build", "assets upload"}

\* C22: nothing is retried. Whatever the outcome of a call (a success, a 4xx
\* or 5xx, a transport failure, an undecodable body), a command with one API
\* call has issued at most 1 request, build and upload at most 2 and these
\* two are different calls, an interactive chat at most one request per line
\* read, and no request is issued while an earlier one is unanswered.
C22_NoRetry ==
    /\ Len(responses) <= Len(requests) /\ Len(requests) <= Len(responses) + 1
    /\ (cmd \in Commands \ TwoCallCmds /\ ~(cmd = "thread chat" /\ args.message = ""))
          => Len(requests) <= 1
    /\ cmd \in TwoCallCmds =>
          /\ Len(requests) <= 2
          /\ Len(requests) = 2 => requests[1].method # requests[2].method
    /\ (cmd = "thread chat" /\ args.message = "") => Len(requests) <= stdinReads
    /\ cmd \in AuthCmds => requests = <<>>

\* an upload whose PUT failed with a 500 ended after its two requests
C22_Witness ==
    /\ cmd = "assets upload" /\ Returned /\ Len(requests) = 2
    /\ Len(responses) = 2 /\ responses[2].status = 500

RECURSIVE MessagesBeforeExit(_)
\* the lines worth sending: trimmed, the blank ones left out, up to the first
\* line that is exit or quit
MessagesBeforeExit(ls) ==
    IF ls = <<>> THEN <<>>
    ELSE LET m == TrimSpace(Head(ls)) IN
         IF m = <<"e", "x", "i", "t">> \/ m = <<"q", "u", "i", "t">> THEN <<>>
         ELSE IF m = <<>> THEN MessagesBeforeExit(Tail(ls))
         ELSE <<m>> \o MessagesBeforeExit(Tail(ls))

\* some line read so far is one of the two exit tokens
ExitTyped == \E i \in 1..Len(scanned) :
                TrimSpace(scanned[i]) \in {<<"e", "x", "i", "t">>, <<"q", "u", "i", "t">>}

ConsumedCredentials ==
    /\ login.received = 1 /\ ~login.timedOut
    /\ login.result.err = "" /\ login.result.apiKey # "" /\ login.result.workspaceID # ""

\* C24: a step of a login run changes the keyring or the config store only
\* when the run's select took a callback result with a key, a workspace and
\* no error, and what it writes is that key and that workspace; a run that
\* ended on a listener failure, on the timeout or on a result with an error
\* has left both stores as they were when it started.
C24_WritesOnlyAfterCredentials ==
    [][(cmd = "auth login" /\ cmd' = "auth login" /\ persistent' # persistent) =>
          /\ ConsumedCredentials
          /\ keyring' # keyring => keyring'.secret = login.result.apiKey
          /\ viper' # viper => viper'.workspace_id = login.result.workspaceID
          /\ envKey' = envKey]_vars

\* a login that stored the key and the workspace it received and succeeded
C24_Witness ==
    /\ cmd = "auth login" /\ Returned /\ err = NoError
    /\ ConsumedCredentials
    /\ keyring = [err |-> FALSE, secret |-> CallbackKey]
    /\ viper.workspace_id = CallbackWorkspace
    /\ login.arrived = MaxCallbacks

\* C25: a step of a login run changes the config store's api_key only when
\* keyring.Set failed in that step, which the warning printed by the step
\* shows, and then to the received key; a step that wrote the keyring leaves
\* the config store's api_key as it was.
C25_ConfigKeyOnlyAsFallback ==
    [][(cmd = "auth login" /\ cmd' = "auth login") =>
          /\ viper'.api_key # viper.api_key =>
                /\ keyring' = keyring
                /\ out' # out /\ "Warning: storing in config file" \in Range(out')
                /\ viper'.api_key = login.result.apiKey
          /\ keyring' # keyring => viper'.api_key = viper.api_key]_vars

\* a login whose keyring write failed and whose key went into the config file
C25_Witness ==
    /\ cmd = "auth login" /\ Returned /\ err = NoError
    /\ "Warning: storing in config file" \in Range(out)
    /\ viper.api_key = CallbackKey
    /\ keyring.secret # CallbackKey

\* the call of fn has returned
Called(fn) == call.fn = fn /\ call.done

\* a <= b for two byte counts
AtMost(a, b) == \/ Len(a) < Len(b)
                \/ Len(a) = Len(b) /\ ~Above(a, b)

\* the units in the order of their size
UnitIndex(u) == CHOOSE i \in 1..7 : <<"B", "KB", "MB", "GB", "TB", "PB", "EB">>[i] = u

\* the counts on either side of every change of unit: 1024^k - 1 and 1024^k,
\* with 0 and the largest int64
Boundaries ==
    {<<0>>, <<TopLimbMax>> \o [i \in 1..(Int64Limbs - 1) |-> Unit - 1]} \cup
    {[i \in 1..k |-> Unit - 1] : k \in 1..(Int64Limbs - 1)} \cup
    {<<1>> \o [i \in 1..k |-> 0] : k \in 1..(Int64Limbs - 1)}

\* C26: formatBytes of a count below 1024 is the count itself with unit B
\* and no decimals; of a larger count n it is a number with one decimal and
\* the unit of the largest power of 1024 that is at most n, which for seven
\* limbs is E; 1024 gives 1.0 KB, 1536 gives 1.5 KB, 1048576 gives 1.0 MB;
\* a count at most n never gets a larger unit than n, checked against the
\* counts around every power of 1024.
C26_FormatBytesUnit ==
    Called("formatBytes") =>
        LET n == call.arg
            r == call.ret
        IN /\ Len(n) = 1 => r = [int |-> n[1], frac |-> <<>>, unit |-> "B"]
           /\ Len(n) > 1 =>
                 /\ r.unit = <<"KB", "MB", "GB", "TB", "PB", "EB">>[Len(n) - 1]
                 /\ Len(r.frac) = 1 /\ r.frac[1] \in 0..9
           /\ n = <<1, 0>> => r = [int |-> 1, frac |-> <<0>>, unit |-> "KB"]
           /\ n = <<1, 512>> => r = [int |-> 1, frac |-> <<5>>, unit |-> "KB"]
           /\ n = <<1, 0, 0>> => r = [int |-> 1, frac |-> <<0>>, unit |-> "MB"]
           /\ \A m \in Boundaries :
                 /\ AtMost(m, n) => UnitIndex(formatBytes(m).unit) <= UnitIndex(r.unit)
                 /\ AtMost(n, m) => UnitIndex(r.unit) <= UnitIndex(formatBytes(m).unit)

\* the largest int64, 2^63 - 1, came out as 8.0 EB
C26_Witness ==
    /\ Called("formatBytes")
    /\ call.arg = <<7, 1023, 1023, 1023, 1023, 1023, 1023>>
    /\ call.ret = [int |-> 8, frac |-> <<0>>, unit |-> "EB"]

\* the families a MIME type can start with
Families == {"video", "image", "audio", "font"}

\* C27: detectAssetType of a MIME type that starts with video/, image/,
\* audio/ or font/ is that family, and of any other string, the empty one
\* and application/octet-stream among them, it is video.
C27_AssetTypeByPrefix ==
    Called("detectAssetType") =>
        /\ \A f \in Families :
              (\E rest \in 0..Len(call.arg) :
                  /\ Len(call.arg) = Len(f) + 1 + rest
                  /\ SubSeq(call.arg, 1, Len(f) + 1) = f \o "/") => call.ret = f
        /\ (\A f \in Families :
               Len(call.arg) <= Len(f) \/ SubSeq(call.arg, 1, Len(f) + 1) # f \o "/")
              => call.ret = "video"

\* application/octet-stream came out as video
C27_Witness ==
    Called("detectAssetType") /\ call.arg = "application/octet-stream" /\ call.ret = "video"

\* the two extensions are equal when case is ignored
EqualFold(a, b) == ToLowerString(a) = ToLowerString(b)

\* C28: detectMimeType of a path is the table's entry for the lowercased
\* extension of the path and application/octet-stream when the table has
\* none, so every path whose extension is the same but for case gets the
\* same result.
C28_MimeByLowercasedExtension ==
    Called("detectMimeType") =>
        /\ \A e \in mimeTypes : EqualFold(Ext(call.arg), e[1]) => call.ret = e[2]
        /\ (\A e \in mimeTypes : ~EqualFold(Ext(call.arg), e[1]))
              => call.ret = "application/octet-stream"
        /\ \A other \in Paths :
              EqualFold(Ext(other), Ext(call.arg)) => detectMimeType(other) = call.ret

\* an upper-case extension after a directory with a dot in its name
C28_Witness ==
    Called("detectMimeType") /\ call.arg = "my.clips/take.MP4" /\ call.ret = "video/mp4"

\* no call is in progress while the program runs, and a call has one of the
\* arguments of its function
CallOK ==
    \/ call = NoCall
    \/ call.fn = "formatBytes" /\ call.arg \in ByteCounts
    \/ call.fn = "detectMimeType" /\ call.arg \in Paths
    \/ call.fn = "detectAssetType" /\ call.arg \in MimeArgs

\* C29: an auth status run that resolved a non-empty API key, of whatever
\* length, has returned without an error and has printed the key redacted,
\* no more of it than its first 12 and last 4 characters.
C29_StatusNeverFails ==
    (cmd = "auth status" /\ runE /\ apiKey # "") =>
        /\ Returned /\ err = NoError
        /\ keyShown # <<>>
        /\ Len(keyShown) <= RedactHead + 3 + RedactTail
        /\ pc = "exited" => exitCode = 0

\* C30: once the waiting side of a login run has left its select, after
\* which nothing receives from the channel any more, no handler or listener
\* goroutine is blocked in its send, so that Shutdown, which waits for the
\* handlers, returns.
C30_NoSenderLeftBlocked ==
    (cmd = "auth login" /\ pc \in {"shutdown", "shutdownWait", "done", "exited"}) =>
        /\ login.sendq = <<>>
        /\ pc = "shutdownWait" => ShutdownReturns(login)

====
